---- MODULE Spec2Model ----
(***************************************************************************)
(* Model of the oracle-text notebook (mtg_oracle_text.ipynb) and of the    *)
(* auto-commit script.  Text is a sequence of one-character strings, a     *)
(* token is such a sequence, a token list is a sequence of tokens.         *)
(***************************************************************************)
EXTENDS Integers, Sequences, FiniteSets, TLC

VARIABLES text, fn, out, toks, spans,
          seq, n, result,
          cleaned, ci, wi, bag_of_words, index, phase, vtext, v,
          pc, exit_status, ran

vars == <<text, fn, out, toks, spans, seq, n, result,
          cleaned, ci, wi, bag_of_words, index, phase, vtext, v,
          pc, exit_status, ran>>

textVars == <<text, fn, out, toks, spans>>
windowVars == <<seq, n, result>>
vocabVars == <<cleaned, ci, wi, bag_of_words, index, phase, vtext, v>>
scriptVars == <<pc, exit_status, ran>>

\* ---------------------------------------------------------------- bounds
MaxTextLen == 3
MaxParenLen == 6
MaxSeqLen == 4
MaxWidth == 5
MaxCards == 2
MaxCorpusLen == 3
MaxStatus == 255

\* ------------------------------------------------------------ characters
Letters == {"a", "A", "b"}
Digits == {"7"}
Whitespace == {" ", "\t", "\n", "\r"}
KeptSymbols == {"~", "{", "}", "+", "-", "/"}
OtherChars == {"(", ")", ".", "<"}
Chars == Letters \cup Digits \cup Whitespace \cup KeptSymbols \cup OtherChars
ParenChars == {"(", ")", "a"}
CorpusChars == {"a", "A", " ", "<"}
VecChars == {"a", "A", "b", " ", "<"}

isspace(c) == c \in Whitespace
isalnum(c) == c \in Letters \cup Digits
lower_char(c) == IF c = "A" THEN "a" ELSE c
lower(s) == [i \in 1..Len(s) |-> lower_char(s[i])]

SeqsUpTo(S, k) == UNION {[1..m -> S] : m \in 0..k}

\* ------------------------------------------------------ remove_parentheses
\* parentheses_re = \([^)]*\) tried at position i: the end of the match,
\* or 0 when the pattern does not match there.
parentheses_re_nested(s, i) ==
    IF s[i] = "(" /\ \E j \in (i+1)..Len(s) : s[j] \in {"(", ")"}
    THEN LET j == CHOOSE k \in (i+1)..Len(s) :
                     /\ s[k] \in {"(", ")"}
                     /\ \A m \in (i+1)..(k-1) : s[m] \notin {"(", ")"}
         IN IF s[j] = ")" THEN j ELSE 0
    ELSE 0

parentheses_re_greedy(s, i) ==
    IF s[i] = "(" /\ \E j \in (i+1)..Len(s) : s[j] = ")"
    THEN CHOOSE j \in (i+1)..Len(s) :
             s[j] = ")" /\ \A m \in (j+1)..Len(s) : s[m] # ")"
    ELSE 0

parentheses_re(s, i) ==
    IF s[i] = "(" /\ \E j \in (i+1)..Len(s) : s[j] = ")"
    THEN CHOOSE j \in (i+1)..Len(s) :
             s[j] = ")" /\ \A m \in (i+1)..(j-1) : s[m] # ")"
    ELSE 0

\* parentheses_re.sub('', s): leftmost non-overlapping matches are dropped,
\* everything between them is copied.  spans records the matches.
RECURSIVE parentheses_sub(_, _, _, _)
parentheses_sub(s, i, acc, sp) ==
    IF i > Len(s) THEN [out |-> acc, spans |-> sp]
    ELSE LET e == parentheses_re(s, i)
         IN IF e # 0
            THEN parentheses_sub(s, e + 1, acc, Append(sp, <<i, e>>))
            ELSE parentheses_sub(s, i + 1, Append(acc, s[i]), sp)

remove_parentheses(s) == parentheses_sub(s, 1, <<>>, <<>>).out

\* ----------------------------------------------------- remove_punctuation
punctuation_char_keep_all(c) ==
    (IF c \in {"\n", "\r", "\t"} THEN <<" ">> ELSE <<>>) \o <<c>>

punctuation_char(c) ==
    (IF c \in {"\n", "\r", "\t"} THEN <<" ">> ELSE <<>>)
    \o (IF isspace(c) \/ isalnum(c) THEN <<c>>
        ELSE IF c \in {"~", "{", "}", "+", "-", "/"}
             THEN <<c>> \o (IF c = "}" THEN <<" ">> ELSE <<>>)
             ELSE <<" ">>)

RECURSIVE remove_punctuation(_)
remove_punctuation(s) ==
    IF s = <<>> THEN <<>>
    ELSE punctuation_char(Head(s)) \o remove_punctuation(Tail(s))

\* ------------------------------------------------------ clean_oracle_text
replace_newline(s) == [i \in 1..Len(s) |-> IF s[i] = "\n" THEN " " ELSE s[i]]

\* str.split(): maximal runs of non-whitespace characters
RECURSIVE split_from(_, _, _, _)
split_from(s, i, cur, acc) ==
    IF i > Len(s) THEN (IF cur = <<>> THEN acc ELSE Append(acc, cur))
    ELSE IF isspace(s[i])
         THEN split_from(s, i + 1, <<>>,
                         IF cur = <<>> THEN acc ELSE Append(acc, cur))
         ELSE split_from(s, i + 1, Append(cur, s[i]), acc)

split(s) == split_from(s, 1, <<>>, <<>>)

clean_oracle_text(s) ==
    LET no_parentheses == remove_parentheses(s)
        no_newlines == replace_newline(no_parentheses)
        no_punctuation == remove_punctuation(no_newlines)
        no_upper == lower(no_punctuation)
    IN split(no_upper)

\* ------------------------------------------------- text specification
Texts == SeqsUpTo(Chars, MaxTextLen) \cup SeqsUpTo(ParenChars, MaxParenLen)

IdleText == text = <<>> /\ fn = "none" /\ out = <<>> /\ toks = <<>> /\ spans = <<>>
IdleWindows == seq = <<>> /\ n = 1 /\ result = [status |-> "none", value |-> <<>>]
IdleVocab ==
    /\ cleaned = <<>> /\ ci = 1 /\ wi = 1
    /\ bag_of_words = <<>> /\ index = 0 /\ phase = "idle"
    /\ vtext = <<>> /\ v = [status |-> "none", value |-> <<>>]
IdleScript == pc = "idle" /\ exit_status = 0 /\ ran = <<>>

InitText ==
    /\ text \in Texts
    /\ fn = "none" /\ out = <<>> /\ toks = <<>> /\ spans = <<>>
    /\ IdleWindows /\ IdleVocab /\ IdleScript

CallRemoveParentheses ==
    /\ fn = "none"
    /\ fn' = "remove_parentheses"
    /\ LET r == parentheses_sub(text, 1, <<>>, <<>>)
       IN out' = r.out /\ spans' = r.spans
    /\ UNCHANGED <<text, toks, windowVars, vocabVars, scriptVars>>

CallRemovePunctuation ==
    /\ fn = "none"
    /\ fn' = "remove_punctuation"
    /\ out' = remove_punctuation(text)
    /\ UNCHANGED <<text, toks, spans, windowVars, vocabVars, scriptVars>>

CallCleanOracleText ==
    /\ fn = "none"
    /\ fn' = "clean_oracle_text"
    /\ toks' = clean_oracle_text(text)
    /\ UNCHANGED <<text, out, spans, windowVars, vocabVars, scriptVars>>

NextText == CallRemoveParentheses \/ CallRemovePunctuation \/ CallCleanOracleText

SpecText == InitText /\ [][NextText]_vars

\* ------------------------------------------------- properties of the text
HasAlnum(s) == \E i \in 1..Len(s) : isalnum(s[i])
HasKeptSymbol(s) == \E i \in 1..Len(s) : s[i] \in KeptSymbols

\* the characters of s at the positions outside every span, in order
OutsideSpans(s, sp) ==
    LET P == {i \in 1..Len(s) :
                 \A k \in 1..Len(sp) : i < sp[k][1] \/ i > sp[k][2]}
    IN [j \in 1..Cardinality(P) |->
           s[CHOOSE i \in P : Cardinality({m \in P : m < i}) = j - 1]]

SpanEndsAtFirstClose(s, sp, k) ==
    /\ sp[k][1] < sp[k][2] /\ sp[k][2] <= Len(s)
    /\ s[sp[k][1]] = "(" /\ s[sp[k][2]] = ")"
    /\ \A m \in (sp[k][1] + 1)..(sp[k][2] - 1) : s[m] # ")"

PrevEnd(sp, k) == IF k = 1 THEN 0 ELSE sp[k - 1][2]

\* C6: remove_parentheses is idempotent: a second pass over its output
\* deletes nothing more.
C6_Idempotent ==
    fn = "remove_parentheses" => remove_parentheses(out) = out

\* a nested input whose output still holds an unmatched "("
C6_Witness ==
    /\ fn = "remove_parentheses"
    /\ Len(spans) >= 1
    /\ \E m \in (spans[1][1] + 1)..(spans[1][2] - 1) : text[m] = "("
    /\ \E i \in 1..Len(out) : out[i] = "("

\* C7 as stated: a text without any letter or digit cleans to no tokens.
C7_NoAlnumNoTokens ==
    (fn = "clean_oracle_text" /\ ~HasAlnum(text)) => toks = <<>>

\* C7 amended: a text without any letter or digit and without any of the
\* kept symbols ~ { } + - / cleans to the empty token list.
C7_NoAlnumNoSymbolNoTokens ==
    (fn = "clean_oracle_text" /\ ~HasAlnum(text) /\ ~HasKeptSymbol(text))
        => toks = <<>>

C7_Witness ==
    /\ fn = "clean_oracle_text"
    /\ ~HasAlnum(text) /\ ~HasKeptSymbol(text)
    /\ \E i \in 1..Len(text) : text[i] = "."
    /\ \E i \in 1..Len(text) : text[i] = "<"
    /\ toks = <<>>

\* C8 as stated: each deleted span runs from a "(" to the first ")" after
\* it, holds no other "(" (the ")" closes the nearest "(" before it), and
\* the text outside the spans is kept unchanged and in order.
C8_ClosesNearestOpen ==
    fn = "remove_parentheses" =>
        /\ \A k \in 1..Len(spans) :
              /\ SpanEndsAtFirstClose(text, spans, k)
              /\ \A m \in (spans[k][1] + 1)..spans[k][2] : text[m] # "("
        /\ out = OutsideSpans(text, spans)

\* C8 amended: each deleted span runs from a "(" to the first ")" after it
\* and may hold further "("; it starts at the first "(" after the previous
\* span that has a ")" somewhere after it; spans do not overlap and the
\* text outside them is kept unchanged and in order.
C8_ClosesEarliestOpen ==
    fn = "remove_parentheses" =>
        /\ \A k \in 1..Len(spans) :
              /\ SpanEndsAtFirstClose(text, spans, k)
              /\ PrevEnd(spans, k) < spans[k][1]
              /\ \A m \in (PrevEnd(spans, k) + 1)..(spans[k][1] - 1) :
                    ~(text[m] = "(" /\ \E j \in (m + 1)..Len(text) : text[j] = ")")
        /\ \A m \in (PrevEnd(spans, Len(spans) + 1) + 1)..Len(text) :
              ~(text[m] = "(" /\ \E j \in (m + 1)..Len(text) : text[j] = ")")
        /\ out = OutsideSpans(text, spans)

\* a span that swallows an inner "(" and is followed by a second span
C8_Witness ==
    /\ fn = "remove_parentheses"
    /\ Len(spans) = 2
    /\ \E m \in (spans[1][1] + 1)..(spans[1][2] - 1) : text[m] = "("
    /\ \E i \in 1..Len(out) : out[i] = ")"

expected_char(c) ==
    IF c \in {"\t", "\r", "\n"} THEN <<" ">>
    ELSE IF isalnum(c) \/ isspace(c) THEN <<c>>
    ELSE IF c = "}" THEN <<"}", " ">>
    ELSE IF c \in {"~", "{", "+", "-", "/"} THEN <<c>>
    ELSE <<" ">>

RECURSIVE expected_pass(_)
expected_pass(s) ==
    IF s = <<>> THEN <<>> ELSE expected_char(Head(s)) \o expected_pass(Tail(s))

\* C10 as stated: remove_punctuation maps each character to a fixed output:
\* letters, digits, blanks and ~ { + - / to themselves, "}" to "} ", each
\* tab, CR and LF to exactly one space, anything else to one space.
C10_CharacterPass ==
    fn = "remove_punctuation" =>
        /\ out = expected_pass(text)
        /\ \A i \in 1..Len(out) : out[i] \notin {"\t", "\r", "\n"}

\* ------------------------------------------------------------- windows
Ids == 0..2
Min(a, b) == IF a < b THEN a ELSE b

\* list(islice(it, k)) on a fresh iterator: the first k elements, fewer
\* when the sequence is shorter
islice(s, k) == SubSeq(s, 1, Min(k, Len(s)))

\* lst[1:]
drop_head(lst) == IF lst = <<>> THEN <<>> ELSE Tail(lst)

RECURSIVE windows_loop_keep_head(_, _)
windows_loop_keep_head(it, res) ==
    IF it = <<>> THEN res
    ELSE windows_loop_keep_head(Tail(it),
             Append(res, res[Len(res)] \o <<Head(it)>>))

\* for e in it: result.append(result[-1][1:] + [e])
RECURSIVE windows_loop(_, _)
windows_loop(it, res) ==
    IF it = <<>> THEN res
    ELSE windows_loop(Tail(it),
             Append(res, drop_head(res[Len(res)]) \o <<Head(it)>>))

\* islice raises ValueError for a negative stop
windows(s, k) ==
    IF k < 0 THEN [status |-> "ValueError", value |-> <<>>]
    ELSE LET first == islice(s, k)
             it == SubSeq(s, Len(first) + 1, Len(s))
         IN [status |-> "ok", value |-> windows_loop(it, <<first>>)]

InitWindows ==
    /\ seq \in SeqsUpTo(Ids, MaxSeqLen)
    /\ n \in (0 - MaxWidth)..MaxWidth
    /\ result = [status |-> "none", value |-> <<>>]
    /\ IdleText /\ IdleVocab /\ IdleScript

CallWindows ==
    /\ result.status = "none"
    /\ result' = windows(seq, n)
    /\ UNCHANGED <<seq, n, textVars, vocabVars, scriptVars>>

NextWindows == CallWindows

SpecWindows == InitWindows /\ [][NextWindows]_vars

\* C1: for 1 <= n <= len(s) there are len(s) - n + 1 windows, window i is
\* the slice s[i .. i+n-1], and the windows' last elements spell s[n-1:].
C1_WindowsAreSlices ==
    (result.status # "none" /\ 1 <= n /\ n <= Len(seq)) =>
        /\ result.status = "ok"
        /\ Len(result.value) = Len(seq) - n + 1
        /\ \A i \in 1..Len(result.value) :
              /\ Len(result.value[i]) = n
              /\ result.value[i] = SubSeq(seq, i, i + n - 1)
        /\ [i \in 1..Len(result.value) |-> result.value[i][n]]
               = SubSeq(seq, n, Len(seq))

C1_Witness ==
    /\ result.status = "ok"
    /\ n = 3 /\ Len(seq) = 4
    /\ seq[1] # seq[2] /\ seq[2] # seq[3] /\ seq[3] # seq[4]
    /\ Len(result.value) = 2

\* C5 as stated: windows fails (invalid width) whenever n <= 0 and never
\* fails for n >= 1, whatever the length of the sequence.
C5_FailsIffNonPositive ==
    result.status # "none" =>
        /\ (n <= 0 => result.status = "ValueError")
        /\ (n >= 1 => result.status = "ok")

\* ---------------------------------------------------------- vocabulary
lpad == <<"<", "l", "p", "a", "d", ">">>
rpad == <<"<", "r", "p", "a", "d", ">">>

CorpusTexts == SeqsUpTo(CorpusChars, MaxCorpusLen)
VecTexts == SeqsUpTo(VecChars, MaxCorpusLen)

\* cleaned = ((name, clean_oracle_text(text)) for name, text in no_card_names)
CleanedTexts == {clean_oracle_text(t) : t \in CorpusTexts}

\* body of the build loop for one word, without the membership test
bag_insert_always(bag, idx, word) ==
    [bag |-> [w \in DOMAIN bag \cup {word} |-> IF w = word THEN idx ELSE bag[w]],
     index |-> idx + 1]

\* if word in bag_of_words: continue
\* bag_of_words[word] = index; index += 1
bag_insert(bag, idx, word) ==
    IF word \in DOMAIN bag THEN [bag |-> bag, index |-> idx]
    ELSE [bag |-> [w \in DOMAIN bag \cup {word} |->
                      IF w = word THEN idx ELSE bag[w]],
          index |-> idx + 1]

vectorize_pads_swapped(bag, t) ==
    LET words == <<rpad>> \o clean_oracle_text(t) \o <<lpad>>
    IN IF \E i \in 1..Len(words) : words[i] \notin DOMAIN bag
       THEN [status |-> "KeyError", value |-> <<>>]
       ELSE [status |-> "ok", value |-> [i \in 1..Len(words) |-> bag[words[i]]]]

vectorize_with_fallback(bag, t) ==
    LET words == <<lpad>> \o clean_oracle_text(t) \o <<rpad>>
    IN [status |-> "ok",
        value |-> [i \in 1..Len(words) |->
                      IF words[i] \in DOMAIN bag THEN bag[words[i]] ELSE 0]]

\* [bag_of_words[word] for word in [lpad, *clean_oracle_text(text), rpad]]
\* a missing key raises KeyError and no list is returned
vectorize(bag, t) ==
    LET words == <<lpad>> \o clean_oracle_text(t) \o <<rpad>>
    IN IF \E i \in 1..Len(words) : words[i] \notin DOMAIN bag
       THEN [status |-> "KeyError", value |-> <<>>]
       ELSE [status |-> "ok", value |-> [i \in 1..Len(words) |-> bag[words[i]]]]

InitVocab ==
    /\ cleaned \in SeqsUpTo(CleanedTexts, MaxCards)
    /\ ci = 1 /\ wi = 1
    /\ bag_of_words = [w \in {rpad, lpad} |-> IF w = rpad THEN 0 ELSE 1]
    /\ index = 2
    /\ phase = "build"
    /\ vtext = <<>> /\ v = [status |-> "none", value |-> <<>>]
    /\ IdleText /\ IdleWindows /\ IdleScript

\* one iteration of "for word in text"
BuildWord ==
    /\ phase = "build" /\ ci <= Len(cleaned) /\ wi <= Len(cleaned[ci])
    /\ LET r == bag_insert(bag_of_words, index, cleaned[ci][wi])
       IN bag_of_words' = r.bag /\ index' = r.index
    /\ wi' = wi + 1
    /\ UNCHANGED <<cleaned, ci, phase, vtext, v, textVars, windowVars, scriptVars>>

\* "for name, text in cleaned" moves on to the next card
NextCard ==
    /\ phase = "build" /\ ci <= Len(cleaned) /\ wi > Len(cleaned[ci])
    /\ ci' = ci + 1 /\ wi' = 1
    /\ UNCHANGED <<cleaned, bag_of_words, index, phase, vtext, v,
                   textVars, windowVars, scriptVars>>

\* the generator is exhausted
BuildDone ==
    /\ phase = "build" /\ ci > Len(cleaned)
    /\ phase' = "built"
    /\ UNCHANGED <<cleaned, ci, wi, bag_of_words, index, vtext, v,
                   textVars, windowVars, scriptVars>>

\* v = vectorize(...), called once after the loop
Vectorize ==
    /\ phase = "built" /\ v.status = "none"
    /\ \E t \in VecTexts :
          /\ vtext' = t
          /\ v' = vectorize(bag_of_words, t)
    /\ UNCHANGED <<cleaned, ci, wi, bag_of_words, index, phase,
                   textVars, windowVars, scriptVars>>

NextVocab == BuildWord \/ NextCard \/ BuildDone \/ Vectorize

SpecVocab == InitVocab /\ [][NextVocab]_vars

RECURSIVE Flatten(_)
Flatten(ss) == IF ss = <<>> THEN <<>> ELSE Head(ss) \o Flatten(Tail(ss))

\* the corpus words the loop has handled so far, in order
Processed == Flatten(SubSeq(cleaned, 1, ci - 1))
                 \o (IF ci <= Len(cleaned) THEN SubSeq(cleaned[ci], 1, wi - 1)
                     ELSE <<>>)

FirstPos(s, w) == CHOOSE i \in 1..Len(s) : s[i] = w /\ \A j \in 1..(i - 1) : s[j] # w

VocabularyOrdered ==
    phase \in {"build", "built"} =>
        LET done == Processed
            seen == {done[i] : i \in 1..Len(done)}
        IN /\ rpad \in DOMAIN bag_of_words /\ bag_of_words[rpad] = 0
           /\ lpad \in DOMAIN bag_of_words /\ bag_of_words[lpad] = 1
           /\ DOMAIN bag_of_words = seen \cup {rpad, lpad}
           /\ \A w1, w2 \in DOMAIN bag_of_words :
                 w1 # w2 => bag_of_words[w1] # bag_of_words[w2]
           /\ \A w1, w2 \in seen :
                 FirstPos(done, w1) < FirstPos(done, w2)
                     => bag_of_words[w1] < bag_of_words[w2]
           /\ (phase = "built" => done = Flatten(cleaned))

IdsNeverChange ==
    \A w \in DOMAIN bag_of_words :
        w \in DOMAIN bag_of_words' /\ bag_of_words'[w] = bag_of_words[w]

\* C2: at every step of the build loop and at its end the pads hold ids 0
\* and 1, ids are unique, corpus tokens are numbered in order of first
\* appearance, and an assigned id is never changed by a later step.
C2_VocabularyBuild == [](VocabularyOrdered) /\ [][IdsNeverChange]_vars

\* the loop has finished a corpus with a repeated word and two distinct words
C2_Witness ==
    /\ phase = "built"
    /\ index >= 4
    /\ Len(Flatten(cleaned)) > index - 2

AllKnown(t) ==
    \A k \in 1..Len(clean_oracle_text(t)) :
        clean_oracle_text(t)[k] \in DOMAIN bag_of_words

\* C3: when every cleaned token is in the vocabulary, vectorize returns
\* left-pad id 1, then the id of each cleaned token in order, then
\* right-pad id 0.
C3_VectorizeBrackets ==
    (v.status # "none" /\ AllKnown(vtext)) =>
        LET words == clean_oracle_text(vtext)
        IN /\ v.status = "ok"
           /\ Len(v.value) = Len(words) + 2
           /\ v.value[1] = 1
           /\ v.value[Len(v.value)] = 0
           /\ \A k \in 1..Len(words) : v.value[k + 1] = bag_of_words[words[k]]

C3_Witness ==
    /\ v.status = "ok"
    /\ Len(v.value) = 3
    /\ v.value[2] = 3
    /\ \E i \in 1..Len(vtext) : vtext[i] = "A"

VectorizeFailsOnUnknown ==
    v.status # "none" =>
        /\ v.status = "KeyError" <=> ~AllKnown(vtext)
        /\ v.status = "KeyError" => v.value = <<>>

VocabularyReadOnly ==
    phase = "built" => (bag_of_words' = bag_of_words /\ index' = index)

\* C4: vectorize fails with a lookup error exactly when some cleaned token
\* is not in the vocabulary, returns nothing in that case, and never
\* changes the vocabulary.
C4_VectorizeLookupError ==
    [](VectorizeFailsOnUnknown) /\ [][VocabularyReadOnly]_vars

\* a failing call whose first token is known and whose second is not
C4_Witness ==
    /\ v.status = "KeyError"
    /\ Len(clean_oracle_text(vtext)) = 2
    /\ clean_oracle_text(vtext)[1] \in DOMAIN bag_of_words
    /\ clean_oracle_text(vtext)[2] \notin DOMAIN bag_of_words

\* ---------------------------------------------------- auto-commit script
Steps == <<"add", "commit", "pull", "push">>

after(step) ==
    IF step = "add" THEN "commit"
    ELSE IF step = "commit" THEN "pull"
    ELSE IF step = "pull" THEN "push"
    ELSE "exit"

errexit_off(st, next) == next

\* set -e: a command that returns non-zero ends the script at once
errexit(st, next) == IF st = 0 THEN next ELSE "exit"

\* run one command of the script; st is the status the command returns
RunStep(step, st) ==
    /\ pc = step
    /\ ran' = Append(ran, [step |-> step, status |-> st])
    /\ pc' = errexit(st, after(step))
    /\ exit_status' = st
    /\ UNCHANGED <<textVars, windowVars, vocabVars>>

GitAdd == \E st \in 0..MaxStatus : RunStep("add", st)
GitCommit == \E st \in 0..MaxStatus : RunStep("commit", st)
GitPull == \E st \in 0..MaxStatus : RunStep("pull", st)
GitPush == \E st \in 0..MaxStatus : RunStep("push", st)

InitScript ==
    /\ pc = "add" /\ exit_status = 0 /\ ran = <<>>
    /\ IdleText /\ IdleWindows /\ IdleVocab

NextScript == GitAdd \/ GitCommit \/ GitPull \/ GitPush

SpecScript == InitScript /\ [][NextScript]_vars

\* C9: the steps run in the order add, commit, pull, push, each only after
\* all earlier ones succeeded; the first failure ends the script with that
\* step's status, nothing runs after it and nothing is run twice.
C9_FailFastInOrder ==
    pc # "idle" =>
        /\ Len(ran) <= Len(Steps)
        /\ \A i \in 1..Len(ran) : ran[i].step = Steps[i]
        /\ \A i \in 1..(Len(ran) - 1) : ran[i].status = 0
        /\ (Len(ran) > 0 /\ ran[Len(ran)].status # 0) =>
               (pc = "exit" /\ exit_status = ran[Len(ran)].status)
        /\ (Len(ran) > 0 /\ ran[Len(ran)].status = 0) =>
               pc = after(ran[Len(ran)].step)
        /\ (pc = "exit" /\ Len(ran) > 0) => exit_status = ran[Len(ran)].status
        /\ (pc # "exit" /\ Len(ran) < Len(Steps)) => pc = Steps[Len(ran) + 1]

\* git pull failed after add and commit succeeded: push was never run
C9_Witness ==
    /\ pc = "exit"
    /\ Len(ran) = 3
    /\ ran[3].step = "pull" /\ ran[3].status = 1
    /\ exit_status = 1

====
